---- MODULE Spec2Model ----
(***************************************************************************)
(* Model of the secure-access / gateway broker of the dashboard backend:   *)
(*   routes/secure_access.py  one-time access tokens (access_tokens)       *)
(*   routes/gateway.py        gateway sessions       (gateway_sessions)    *)
(* Every route handler is one action, except where the handler awaits an   *)
(* upstream answer while holding state it uses afterwards                  *)
(* (proxy_tool_request), which is split at that await.                     *)
(* Time is counted in minutes.                                             *)
(***************************************************************************)
EXTENDS Integers, Sequences, FiniteSets, TLC

\* ------------------------------------------------------------------ bounds
MaxTokens == 1      \* access tokens issued over a run
MaxSessions == 1    \* gateway sessions started over a run
MaxLaunch == 2      \* launch_tool requests received over a run
MaxInflight == 1    \* proxy_tool_request calls awaiting the upstream at once
MaxProxyInflight == 2  \* the same, while the cookie jar is studied
MaxAccessTime == 6  \* last instant of the clock while access tokens are studied
MaxTime == 32       \* last instant of the clock while sessions are studied
MaxDecryptTime == 4 \* last instant of the clock while payloads are studied
MaxOtps == 2        \* codes generate_otp hands out over a run
MaxVerify == 2      \* verify_otp requests received over a run
MaxAuthTime == 6    \* last instant of the clock while sign-in is studied
MaxSockets == 3     \* websockets the server accepts over a run
MaxSends == 1       \* send_to_user calls over a run
MaxAdminCalls == 2  \* administration calls that succeed over a run

\* ------------------------------------------------------- program constants
ACCESS_TOKEN_TTL == 5       \* timedelta(minutes=5)
SESSION_TIMEOUT == 30       \* timedelta(minutes=30)
OTP_TTL == 5                \* timedelta(minutes=5), of the code and its token
ACCESS_TOKEN_EXPIRE_MINUTES == 30

SuperAdmin == "Super Administrator"

\* The clock is sampled at the instants that separate the TTL cases: it
\* advances by half a lifetime, or by a minute more than that.
AccessTickSteps == {ACCESS_TOKEN_TTL \div 2, ACCESS_TOKEN_TTL \div 2 + 1}
GatewayTickSteps == {SESSION_TIMEOUT \div 2, SESSION_TIMEOUT \div 2 + 1}
\* ... and while sign-in is studied, by a lifetime or a minute more.
AuthTickSteps == {OTP_TTL, OTP_TTL + 1}

\* A token value no issuance ever returns (a guessed or mistyped link).
BogusToken == 0
Tokens == 1..(MaxTokens + MaxSessions)

\* ------------------------------------------------------------ IP addresses
\* An IPv4 address is its four octets; the program holds it as a dotted
\* string, modelled as the sequence of its characters.
DigitChars == <<"0", "1", "2", "3", "4", "5", "6", "7", "8", "9">>
RECURSIVE Digits(_)
Digits(n) ==
    IF n < 10 THEN <<DigitChars[n + 1]>>
    ELSE Digits(n \div 10) \o <<DigitChars[(n % 10) + 1]>>
\* str(address), as request.client.host gives it
dotted(a) ==
    Digits(a[1]) \o <<".">> \o Digits(a[2]) \o <<".">> \o Digits(a[3])
        \o <<".">> \o Digits(a[4])
\* The whitelist entries an administrator stores: one address, or a range
\* written net/prefix.
WhitelistEntries ==
    { [net |-> <<10, 0, 0, 5>>, prefix |-> 32, is_cidr |-> FALSE],
      [net |-> <<10, 0, 1, 0>>, prefix |-> 24, is_cidr |-> TRUE],
      [net |-> <<10, 0, 0, 0>>, prefix |-> 16, is_cidr |-> TRUE] }
entry_string(e) ==
    IF e.is_cidr THEN dotted(e.net) \o <<"/">> \o Digits(e.prefix)
    ELSE dotted(e.net)
\* The addresses requests come from.
ClientAddrs ==
    {<<10, 0, 0, 5>>, <<10, 0, 1, 7>>, <<10, 0, 12, 7>>, <<10, 0, 2, 9>>,
     <<11, 0, 0, 1>>}

\* Python's `ch in s`, s.split(ch)[0], s.rsplit(ch, 1)[0], s.startswith(p)
str_contains(s, ch) == \E i \in 1..Len(s) : s[i] = ch
split_first(s, ch) ==
    IF str_contains(s, ch)
    THEN SubSeq(s, 1, (CHOOSE i \in 1..Len(s) :
                          s[i] = ch /\ \A j \in 1..(i - 1) : s[j] # ch) - 1)
    ELSE s
rsplit_first(s, ch) ==
    IF str_contains(s, ch)
    THEN SubSeq(s, 1, (CHOOSE i \in 1..Len(s) :
                          s[i] = ch /\ \A j \in (i + 1)..Len(s) : s[j] # ch) - 1)
    ELSE s
startswith(s, p) == Len(p) <= Len(s) /\ SubSeq(s, 1, Len(p)) = p

\* --------------------------------------------------------------- database
\* db.users: the subjects that get_current_user can return.
UsersDB ==
    [ sa |-> [role |-> SuperAdmin, email |-> "sa@dsg", allowed_tools |-> {},
              ip_restriction_enabled |-> FALSE, whitelisted_ips |-> {}],
      u1 |-> [role |-> "User", email |-> "u1@dsg", allowed_tools |-> {"aa"},
              ip_restriction_enabled |-> TRUE,
              whitelisted_ips |-> {dotted(<<10, 0, 0, 5>>)}] ]
Users == DOMAIN UsersDB

\* db.tools, keyed by the canonical (lower-case hex) form of _id.
\* "aa" has full credentials, "bb" an empty username, "cc" no URL at all.
ToolsDB ==
    [ aa |-> [name |-> "RMIS", url |-> "https://rmis", login_url |-> "",
              credentials |-> [login_url |-> "https://rmis/login",
                               username |-> "user", password |-> "pw"]],
      bb |-> [name |-> "Truck Stop", url |-> "https://truckstop", login_url |-> "",
              credentials |-> [login_url |-> "",
                               username |-> "", password |-> "pw"]],
      cc |-> [name |-> "Bill.com", url |-> "", login_url |-> "",
              credentials |-> [login_url |-> "",
                               username |-> "", password |-> ""]] ]

\* The tool_id path parameters tried: the stored ids, an upper-case spelling
\* of one of them, a well-formed id of no tool, and a malformed id.
ToolIdInputs == {"aa", "AA", "bb", "cc", "ee", "zz!"}
\* The requests made while the life of a grant is studied: a user asks for
\* a tool with credentials, the super administrator for one without (the
\* other requests are studied on their own: SpecIssue).
GrantRequests == {<<"u1", "aa">>, <<"sa", "bb">>}

\* bson.ObjectId(tool_id), and of the id of a user: hex is parsed case-insensitively; <<>> when the
\* string is no ObjectId (the constructor raises).
ObjectId(tool_id) ==
    CASE tool_id = "aa" -> <<"aa">>
      [] tool_id = "AA" -> <<"aa">>
      [] tool_id = "bb" -> <<"bb">>
      [] tool_id = "cc" -> <<"cc">>
      [] tool_id = "ee" -> <<"ee">>
      [] tool_id \in {"sa", "a1", "a2", "u1", "u2"} -> <<tool_id>>
      [] tool_id = "U1" -> <<"u1">>
      [] tool_id = "A1" -> <<"a1">>
      [] OTHER -> <<>>

\* db.tools.find_one({"_id": obj_id}): the set holding the tool, or {}.
find_tool(obj_id) ==
    IF obj_id[1] \in DOMAIN ToolsDB THEN {ToolsDB[obj_id[1]]} ELSE {}

\* utils/tool_mapping.normalize_tool_name on the names of ToolsDB.
normalize_tool_name(tool_name) ==
    CASE tool_name = "" -> ""
      [] tool_name = "RMIS" -> "rmis"
      [] tool_name = "Truck Stop" -> "truckstop"
      [] tool_name = "Bill.com" -> "billcom"
      [] OTHER -> "other"

\* Secret Manager: the secrets <name>-username / <name>-password that exist.
\* truckstop has an empty username secret; billcom has no secrets.
SecretsDB ==
    [ rmis |-> [username |-> "user", password |-> "pw"],
      truckstop |-> [username |-> "", password |-> "pw"] ]

\* secret_manager.get_tool_credentials: <<credentials>>, or <<>> when a
\* secret cannot be read (HTTPException 500 is raised).
get_tool_credentials(tool_name) ==
    IF tool_name \in DOMAIN SecretsDB THEN <<SecretsDB[tool_name]>> ELSE <<>>

\* hashlib.sha256(token.encode()).hexdigest(): collision-free, not the token.
sha256(token) == <<"sha256", token>>

\* ------------------------------------------------------------ dict helpers
EmptyDict == [k \in {} |-> 0]
DictSet(d, k, v) == [x \in (DOMAIN d) \cup {k} |-> IF x = k THEN v ELSE d[x]]
DictDel(d, k) == [x \in (DOMAIN d) \ {k} |-> d[x]]
\* d.get(k) as the set of values found
DictGet(d, k) == IF k \in DOMAIN d THEN {d[k]} ELSE {}

\* -------------------------------------------------------------- variables
\* db.users as routes/auth.py reads it.
AuthUsersDB ==
    [u1 |-> [email |-> "u1@dsg", password_login_enabled |-> TRUE,
             status |-> "Active", two_sv_enabled |-> TRUE],
     u2 |-> [email |-> "u2@dsg", password_login_enabled |-> TRUE,
             status |-> "Active", two_sv_enabled |-> FALSE],
     g1 |-> [email |-> "g1@dsg", password_login_enabled |-> FALSE,
             status |-> "Active", two_sv_enabled |-> TRUE],
     x1 |-> [email |-> "x1@dsg", password_login_enabled |-> TRUE,
             status |-> "Suspended", two_sv_enabled |-> TRUE]]

\* db.users as routes/users.py finds it: a1 manages u1.
DbUsers ==
    [sa |-> [role |-> SuperAdmin, email |-> "sa@dsg",
             allowed_tools |-> {}, assigned_users |-> {}, managed_by |-> {}],
     a1 |-> [role |-> "Administrator", email |-> "a1@dsg",
             allowed_tools |-> {"aa"}, assigned_users |-> {"u1"}, managed_by |-> {}],
     a2 |-> [role |-> "Administrator", email |-> "a2@dsg",
             allowed_tools |-> {"bb"}, assigned_users |-> {}, managed_by |-> {}],
     u1 |-> [role |-> "User", email |-> "u1@dsg",
             allowed_tools |-> {}, assigned_users |-> {}, managed_by |-> {"a1"}],
     u2 |-> [role |-> "User", email |-> "u2@dsg",
             allowed_tools |-> {"bb"}, assigned_users |-> {}, managed_by |-> {}]]

VARIABLES
    now,               \* datetime.now(timezone.utc), in minutes
    access_tokens,     \* secure_access.access_tokens: hash -> token data
    gateway_sessions,  \* gateway.gateway_sessions:   hash -> session
    activity_logs,     \* db.activity_logs, as the sequence of inserts
    nextToken,         \* the next value secrets.token_urlsafe returns
    handed,            \* raw token -> what the issuance response said
    launch_reqs,       \* launch_tool requests, in order of arrival
    proxy_inflight,    \* proxy_tool_request calls awaiting the upstream
    resp,              \* the last response any handler returned
    launched,          \* raw token -> number of launches that succeeded
    ended,             \* the raw tokens end_gateway_session was called with
    client_host,       \* request.client.host of the connection in use
    ip_check,          \* the last call of check_ip_allowed and its result
    tools_resp,        \* the last response of GET /api/tools[/{tool_id}]
    decrypt_resp,      \* the last response of POST /decrypt-payload
    login_result,      \* the last result of server_login_to_tool
    pending_otp,       \* db.users: pending_otp and otp_expires of each user
    nextOtp,           \* the next value generate_otp returns
    jwts,              \* the tokens create_access_token has signed
    verify_reqs,       \* verify_otp calls that passed the checks, in order
    auth_resp,         \* the last response of a handler of routes/auth.py
    db_users,          \* db.users as routes/users.py reads and writes it
    users_resp,        \* the last response of a handler of routes/users.py
    manager,           \* websocket_manager.manager, its lists as objects
    nextSocket,        \* the next WebSocket the server accepts
    sends              \* ConnectionManager.send_to_user calls, in order

\* The state of the broker (secure_access.py, gateway.py) ...
core == <<now, access_tokens, gateway_sessions, activity_logs, nextToken,
          handed, launch_reqs, proxy_inflight, resp, launched, ended>>
\* ... and what the handlers of the broker neither read nor write.
helpers == <<client_host, ip_check, tools_resp, decrypt_resp, login_result>>
\* The sign-in state (routes/auth.py).
auth_vars == <<pending_otp, nextOtp, jwts, verify_reqs, auth_resp>>
\* The routers that keep state of their own.
\* The accounts as the administration routes see them (routes/users.py).
user_vars == <<db_users, users_resp>>
\* The connection manager (utils/websocket_manager.py).
ws_vars == <<manager, nextSocket, sends>>
outer == <<auth_vars, user_vars, ws_vars>>
aux == <<helpers, outer>>

vars == <<core, aux>>

\* A response: the handler, its inputs, the HTTP status, the response's
\* detail, and `pre`: what the handler found stored under the token's hash
\* before it acted ({} when there was nothing).
Response(op, user, tool_id, token, status, body, pre) ==
    [op |-> op, user |-> user, tool_id |-> tool_id, token |-> token,
     status |-> status, body |-> body, pre |-> pre]

NoResp ==
    [op |-> "none", user |-> "", tool_id |-> "", token |-> BogusToken,
     status |-> 0, body |-> "", pre |-> {}]

Init ==
    /\ now = 0
    /\ access_tokens = EmptyDict
    /\ gateway_sessions = EmptyDict
    /\ activity_logs = <<>>
    /\ nextToken = 1
    /\ handed = EmptyDict
    /\ launch_reqs = <<>>
    /\ proxy_inflight = <<>>
    /\ resp = NoResp
    /\ launched = [t \in Tokens |-> 0]
    /\ ended = {}
    /\ client_host = <<10, 0, 0, 5>>
    /\ ip_check = {}
    /\ tools_resp = {}
    /\ decrypt_resp = {}
    /\ login_result = {}
    /\ pending_otp = [u \in DOMAIN AuthUsersDB |-> {}]
    /\ nextOtp = 1
    /\ jwts = {}
    /\ verify_reqs = <<>>
    /\ auth_resp = {}
    /\ db_users = DbUsers
    /\ users_resp = {}
    /\ manager = [active_connections |-> EmptyDict, lists |-> <<>>,
                  connection_users |-> EmptyDict]
    /\ nextSocket = 1
    /\ sends = <<>>

\* The clock advances between handlers.
Tick(d, last) ==
    /\ now + d <= last
    /\ now' = now + d
    /\ UNCHANGED aux
    /\ UNCHANGED <<access_tokens, gateway_sessions, activity_logs, nextToken,
                   handed, launch_reqs, proxy_inflight, resp, launched, ended>>

\* ------------------------------------------------- routes/secure_access.py

\* (mutant) nobody is refused for the allow-list.
access_denied_never(user, tool_id) == FALSE

\* (mutant) the allow-list is applied to every role.
access_denied_no_bypass(user, tool_id) ==
    tool_id \notin UsersDB[user].allowed_tools

\* `if current_user.get("role") != "Super Administrator": ...
\*      if tool_id not in allowed_tools: raise 403`
access_denied(user, tool_id) ==
    /\ UsersDB[user].role # SuperAdmin
    /\ tool_id \notin UsersDB[user].allowed_tools

\* `login_url = credentials.get("login_url") or tool.get("url", "#")`
access_login_url(tool) ==
    IF tool.credentials.login_url # "" THEN tool.credentials.login_url
    ELSE tool.url

\* `has_credentials = bool(credentials.get("username") and credentials.get("password"))`
has_credentials(credentials) ==
    credentials.username # "" /\ credentials.password # ""

\* The dict stored in access_tokens[token_hash].
new_access_token(tool_id, user, tool, t) ==
    [tool_id |-> tool_id,
     user_id |-> user,
     user_email |-> UsersDB[user].email,
     login_url |-> access_login_url(tool),
     tool_name |-> tool.name,
     has_credentials |-> has_credentials(tool.credentials),
     credentials |-> IF has_credentials(tool.credentials)
                     THEN {tool.credentials} ELSE {},
     expires_at |-> t + ACCESS_TOKEN_TTL,
     used |-> FALSE]

access_log(user, tool) ==
    [user_email |-> UsersDB[user].email, action |-> "Accessed Tool",
     target |-> tool.name, activity_type |-> "access"]

\* POST /{tool_id}/request-access.  log_ok: whether db.activity_logs.insert_one
\* returns; when it raises, the exception leaves the handler (500) after the
\* token was stored.
request_tool_access(user, tool_id, log_ok) ==
    LET op == "request_tool_access"
        obj_id == ObjectId(tool_id)
        found == find_tool(obj_id)
        refuse(status, body) ==
            /\ resp' = Response(op, user, tool_id, BogusToken, status, body, {})
            /\ UNCHANGED <<access_tokens, activity_logs, nextToken, handed>>
    IN
    /\ IF obj_id = <<>> THEN refuse(400, "Invalid tool ID")
       ELSE IF found = {} THEN refuse(404, "Tool not found")
       ELSE LET tool == CHOOSE x \in found : TRUE IN
         IF access_denied(user, tool_id)
            THEN refuse(403, "You don't have access to this tool")
         ELSE IF access_login_url(tool) = "" \/ access_login_url(tool) = "#"
            THEN refuse(400, "Tool URL not configured")
         ELSE
            /\ nextToken <= MaxTokens
            /\ nextToken' = nextToken + 1
            /\ access_tokens' = DictSet(access_tokens, sha256(nextToken),
                                        new_access_token(tool_id, user, tool, now))
            /\ IF log_ok
               THEN /\ activity_logs' = Append(activity_logs, access_log(user, tool))
                    /\ handed' = DictSet(handed, nextToken,
                                    [kind |-> "access", issued_at |-> now,
                                     user |-> user, tool_id |-> tool_id])
                    /\ resp' = Response(op, user, tool_id, nextToken, 200,
                                        "access_token", {})
               ELSE /\ UNCHANGED <<activity_logs, handed>>
                    /\ resp' = Response(op, user, tool_id, BogusToken, 500,
                                        "Internal Server Error", {})
    /\ UNCHANGED aux
    /\ UNCHANGED <<now, gateway_sessions, launch_reqs, proxy_inflight,
                   launched, ended>>

\* (mutant) a used token is never reported as expired.
token_expired_unless_used(t, token_data) ==
    t > token_data.expires_at /\ ~token_data.used

\* `if datetime.now(timezone.utc) > token_data["expires_at"]`
token_expired(t, token_data) == t > token_data.expires_at

\* (mutant) the used flag is not looked at.
already_used_never(token_data) == FALSE

\* `if token_data["used"]`
already_used(token_data) == token_data.used

\* (mutant) the used flag is not written.
mark_used_skipped(tokens, token_hash) == tokens

\* `access_tokens[token_hash]["used"] = True`
mark_used(tokens, token_hash) == [tokens EXCEPT ![token_hash].used = TRUE]

\* base64.b64encode(x.encode()).decode(): reversible by anyone, not the text.
b64encode(x) == <<"base64", x>>

\* The document launch_tool renders, as far as it depends on the grant.
launch_page(tool_name, login_url, credentials) ==
    [title |-> tool_name, login_url |-> login_url,
     encoded_user |-> b64encode(credentials.username),
     encoded_pass |-> b64encode(credentials.password)]

\* The tokens a client can present: those some response handed out, or junk.
Presentable == (DOMAIN handed) \cup {BogusToken}

\* A GET /launch/{access_token} request reaches the server.  `seen` are the
\* requests still waiting for the event loop at that moment, `fresh` says
\* that no launch of the token has succeeded so far.  When the handler has
\* run, the request holds its response (status, body), the instant `at`,
\* whether the token's hash was `stored`, and whether a launch of the token
\* had succeeded before (`prior`).
launch_arrive(token) ==
    /\ Len(launch_reqs) < MaxLaunch
    /\ launch_reqs' = Append(launch_reqs,
          [token |-> token, st |-> "pending", at |-> 0, status |-> 0,
           body |-> "", page |-> {}, stored |-> FALSE, prior |-> FALSE,
           seen |-> {i \in 1..Len(launch_reqs) : launch_reqs[i].st = "pending"},
           fresh |-> (token \in Tokens /\ launched[token] = 0)])
    /\ UNCHANGED aux
    /\ UNCHANGED <<now, access_tokens, gateway_sessions, activity_logs,
                   nextToken, handed, proxy_inflight, resp, launched, ended>>

\* The body of launch_tool: it awaits nothing, so the event loop runs it in
\* one piece.
launch_tool(i) ==
    LET token == launch_reqs[i].token
        token_hash == sha256(token)
        token_data == DictGet(access_tokens, token_hash)
        done(status, body, page) ==
            /\ launch_reqs' = [launch_reqs EXCEPT ![i] =
                  [@ EXCEPT !.st = "done", !.at = now, !.status = status,
                            !.body = body, !.page = page,
                            !.stored = (token_data # {}),
                            !.prior = (token \in Tokens /\ launched[token] > 0)]]
    IN
    /\ launch_reqs[i].st = "pending"
    /\ IF token_data = {}
       THEN /\ done(403, "Invalid or Expired Access Link", {})
            /\ UNCHANGED <<access_tokens, launched>>
       ELSE LET td == CHOOSE x \in token_data : TRUE IN
         IF token_expired(now, td)
         THEN /\ access_tokens' = DictDel(access_tokens, token_hash)
              /\ done(403, "Access Link Expired", {})
              /\ UNCHANGED launched
         ELSE IF already_used(td)
         THEN /\ done(403, "Access Link Already Used", {})
              /\ UNCHANGED <<access_tokens, launched>>
         ELSE /\ access_tokens' = mark_used(access_tokens, token_hash)
              /\ launched' = [launched EXCEPT ![token] = @ + 1]
              /\ IF td.credentials = {}
                    \/ (\E c \in td.credentials : c.username = "")
                 THEN done(302, "redirect", {})
                 ELSE done(200, "credential page",
                           {launch_page(td.tool_name, td.login_url, c) :
                               c \in td.credentials})
    /\ UNCHANGED aux
    /\ UNCHANGED <<now, gateway_sessions, activity_logs, nextToken, handed,
                   proxy_inflight, resp, ended>>

\* DELETE /tokens/cleanup
cleanup_expired_tokens(user) ==
    LET op == "cleanup_expired_tokens"
        expired == {k \in DOMAIN access_tokens : now > access_tokens[k].expires_at}
    IN
    /\ IF UsersDB[user].role # SuperAdmin
       THEN /\ resp' = Response(op, user, "", BogusToken, 403,
                                "Super Admin access required", {})
            /\ UNCHANGED access_tokens
       ELSE /\ access_tokens' = [k \in (DOMAIN access_tokens) \ expired |->
                                    access_tokens[k]]
            /\ resp' = Response(op, user, "", BogusToken, 200, "Cleaned up", {})
    /\ UNCHANGED aux
    /\ UNCHANGED <<now, gateway_sessions, activity_logs, nextToken, handed,
                   launch_reqs, proxy_inflight, launched, ended>>

\* ------------------------------------------------------- routes/gateway.py

\* `base_url = tool.get("url", "") or tool.get("login_url", "")`
gateway_base_url(tool) == IF tool.url # "" THEN tool.url ELSE tool.login_url

\* The dict stored in gateway_sessions[session_hash].
new_gateway_session(tool_id, user, tool, credentials, t) ==
    [tool_id |-> tool_id,
     tool_name |-> tool.name,
     base_url |-> gateway_base_url(tool),
     credentials |-> [username |-> credentials.username,
                      password |-> credentials.password,
                      login_url |-> gateway_base_url(tool)],
     user_id |-> user,
     user_email |-> UsersDB[user].email,
     cookies |-> EmptyDict,
     logged_in |-> FALSE,
     created_at |-> t,
     expires_at |-> t + SESSION_TIMEOUT,
     last_access |-> t]

gateway_log(user, tool) ==
    [user_email |-> UsersDB[user].email, action |-> "Started Gateway Session",
     target |-> tool.name, activity_type |-> "access"]

\* f"{prefix}: {str(e)}": a response body that quotes the exception e.
quote_exception(prefix, e) == prefix \o ": " \o e

\* POST /start/{tool_id}
start_gateway_session(user, tool_id, log_ok) ==
    LET op == "start_gateway_session"
        obj_id == ObjectId(tool_id)
        found == find_tool(obj_id)
        refuse(status, body) ==
            /\ resp' = Response(op, user, tool_id, BogusToken, status, body, {})
            /\ UNCHANGED <<gateway_sessions, activity_logs, nextToken, handed>>
    IN
    /\ IF obj_id = <<>> THEN refuse(400, "Invalid tool ID")
       ELSE IF found = {} THEN refuse(404, "Tool not found")
       ELSE LET tool == CHOOSE x \in found : TRUE
                secret == get_tool_credentials(normalize_tool_name(tool.name))
            IN
         IF access_denied(user, tool_id) THEN refuse(403, "Access denied")
         ELSE IF secret = <<>>
            THEN refuse(500, quote_exception("Failed to retrieve credentials",
                               "500: Failed to retrieve credentials for tool"))
         ELSE IF gateway_base_url(tool) = ""
            THEN refuse(500, quote_exception("Failed to retrieve credentials",
                               "400: Tool URL not configured"))
         ELSE
            /\ nextToken <= MaxSessions
            /\ nextToken' = nextToken + 1
            /\ gateway_sessions' = DictSet(gateway_sessions, sha256(nextToken),
                  new_gateway_session(tool_id, user, tool, secret[1], now))
            /\ IF log_ok
               THEN /\ activity_logs' = Append(activity_logs, gateway_log(user, tool))
                    /\ handed' = DictSet(handed, nextToken,
                                    [kind |-> "session", issued_at |-> now,
                                     user |-> user, tool_id |-> tool_id])
                    /\ resp' = Response(op, user, tool_id, nextToken, 200,
                                        "session_token", {})
               ELSE /\ UNCHANGED <<activity_logs, handed>>
                    /\ resp' = Response(op, user, tool_id, BogusToken, 500,
                                        "Internal Server Error", {})
    /\ UNCHANGED aux
    /\ UNCHANGED <<now, access_tokens, launch_reqs, proxy_inflight,
                   launched, ended>>

\* What a response records of the session it found: its expiry, its last
\* access, and the instant `at` of the lookup.
Seen(found) ==
    {[expires_at |-> x.expires_at, last_access |-> x.last_access, at |-> now] :
        x \in found}

\* (mutant) the timeout is added a second time at the check.
session_expired_late(t, session) == t > session.expires_at + SESSION_TIMEOUT

\* `if datetime.now(timezone.utc) > session["expires_at"]`
session_expired(t, session) == t > session.expires_at

\* `gateway_sessions[session_hash]["last_access"] = datetime.now(timezone.utc)`
touch_session(sessions, session_hash, t) ==
    [sessions EXCEPT ![session_hash].last_access = t]

\* The document view_tool_gateway renders, as far as it depends on the
\* session and on the credentials fetched for it.
gateway_page(tool_name, base_url, credentials) ==
    [title |-> tool_name, base_url |-> base_url,
     encoded_user |-> b64encode(credentials.username),
     encoded_pass |-> b64encode(credentials.password)]

\* GET /view/{session_token}
view_tool_gateway(token) ==
    LET op == "view_tool_gateway"
        session_hash == sha256(token)
        found == DictGet(gateway_sessions, session_hash)
        answer(status, body) ==
            resp' = Response(op, "", "", token, status, body, Seen(found))
        render(page) ==
            resp' = Response(op, "", "", token, 200, "gateway page", Seen(found))
                        @@ [page |-> page]
    IN
    /\ IF found = {}
       THEN /\ answer(403, "Session Not Found")
            /\ UNCHANGED gateway_sessions
       ELSE LET session == CHOOSE x \in found : TRUE IN
         IF session_expired(now, session)
         THEN /\ gateway_sessions' = DictDel(gateway_sessions, session_hash)
              /\ answer(403, "Session Expired")
         ELSE LET secret ==
                      get_tool_credentials(normalize_tool_name(session.tool_name))
              IN
              /\ gateway_sessions' = touch_session(gateway_sessions, session_hash, now)
              /\ IF secret = <<>>
                 THEN answer(500, "Credentials Error")
                 ELSE render(gateway_page(session.tool_name, session.base_url,
                                          secret[1]))
    /\ UNCHANGED aux
    /\ UNCHANGED <<now, access_tokens, activity_logs, nextToken, handed,
                   launch_reqs, proxy_inflight, launched, ended>>

\* What the tool answers to a proxied request: it fails (aiohttp raises), or
\* it answers and sets some cookies.
CookieJars ==
    {EmptyDict, [k \in {"sid"} |-> "v1"], [k \in {"sid"} |-> "v2"]}
UpstreamAnswers ==
    {[ok |-> FALSE, cookies |-> EmptyDict]}
        \cup {[ok |-> TRUE, cookies |-> c] : c \in CookieJars}
\* The same with a second cookie name, alone and together with the first.
ProxyAnswers ==
    UpstreamAnswers \cup
        {[ok |-> TRUE, cookies |-> [k \in {"csrf"} |-> "c1"]],
         [ok |-> TRUE, cookies |-> [k \in {"sid", "csrf"} |->
                                      IF k = "sid" THEN "v2" ELSE "c2"]]}

\* (mutant) the jar is replaced by the cookies of the response.
store_cookies_overwrite(sessions, session_hash, cookies) ==
    [sessions EXCEPT ![session_hash].cookies = cookies]

\* `for cookie in resp.cookies.values():
\*      gateway_sessions[session_hash]["cookies"][cookie.key] = cookie.value`
store_cookies(sessions, session_hash, cookies) ==
    [sessions EXCEPT ![session_hash].cookies =
        [k \in (DOMAIN @) \cup (DOMAIN cookies) |->
            IF k \in DOMAIN cookies THEN cookies[k] ELSE @[k]]]

\* GET|POST /proxy/{session_token}/{path}, up to the await of the upstream
\* request: the lookup, the expiry check and the update of last_access.
\* At most `limit` requests wait for the upstream at once.
proxy_tool_request(token, limit) ==
    LET op == "proxy_tool_request"
        session_hash == sha256(token)
        found == DictGet(gateway_sessions, session_hash)
    IN
    /\ IF found = {}
       THEN /\ resp' = Response(op, "", "", token, 403, "Session expired", Seen(found))
            /\ UNCHANGED <<gateway_sessions, proxy_inflight>>
       ELSE LET session == CHOOSE x \in found : TRUE IN
         IF session_expired(now, session)
         THEN /\ gateway_sessions' = DictDel(gateway_sessions, session_hash)
              /\ resp' = Response(op, "", "", token, 403, "Session expired", Seen(found))
              /\ UNCHANGED proxy_inflight
         ELSE /\ Len(proxy_inflight) < limit
              /\ gateway_sessions' = touch_session(gateway_sessions, session_hash, now)
              /\ proxy_inflight' = Append(proxy_inflight,
                    [token |-> token, after_end |-> token \in ended])
              /\ resp' = Response(op, "", "", token, 0, "awaiting upstream",
                                  Seen(found))
    /\ UNCHANGED aux
    /\ UNCHANGED <<now, access_tokens, activity_logs, nextToken, handed,
                   launch_reqs, launched, ended>>

\* proxy_tool_request from the upstream's answer on: the cookies are written
\* into gateway_sessions[session_hash] (a KeyError when the session is gone),
\* and every exception becomes the 500 page that quotes it.
proxy_tool_response(i, answer) ==
    LET op == "proxy_tool_response"
        req == proxy_inflight[i]
        session_hash == sha256(req.token)
        rest == [j \in 1..(Len(proxy_inflight) - 1) |->
                    IF j < i THEN proxy_inflight[j] ELSE proxy_inflight[j + 1]]
        reply(status, body) ==
            resp' = Response(op, "", "", req.token, status, body,
                             Seen(DictGet(gateway_sessions, session_hash)))
                        @@ [set_cookie |-> answer.cookies]
    IN
    /\ proxy_inflight' = rest
    /\ IF ~answer.ok
       THEN /\ reply(500, quote_exception("Error loading tool", "upstream exception"))
            /\ UNCHANGED gateway_sessions
       ELSE IF answer.cookies = EmptyDict
       THEN /\ reply(200, "tool content")
            /\ UNCHANGED gateway_sessions
       ELSE IF session_hash \notin DOMAIN gateway_sessions
       THEN /\ reply(500, quote_exception("Error loading tool", "KeyError"))
            /\ UNCHANGED gateway_sessions
       ELSE /\ gateway_sessions' =
                  store_cookies(gateway_sessions, session_hash, answer.cookies)
            /\ reply(200, "tool content")
    /\ UNCHANGED aux
    /\ UNCHANGED <<now, access_tokens, activity_logs, nextToken, handed,
                   launch_reqs, launched, ended>>

\* (mutant) the session is left in place.
end_session_skipped(sessions, session_hash) == sessions

\* `if session_hash in gateway_sessions: del gateway_sessions[session_hash]`
end_session(sessions, session_hash) == DictDel(sessions, session_hash)

\* DELETE /session/{session_token}
end_gateway_session(user, token) ==
    LET session_hash == sha256(token) IN
    /\ gateway_sessions' = end_session(gateway_sessions, session_hash)
    /\ resp' = Response("end_gateway_session", user, "", token, 200,
                        "Session ended",
                        Seen(DictGet(gateway_sessions, session_hash)))
    /\ ended' = ended \cup {token}
    /\ UNCHANGED aux
    /\ UNCHANGED <<now, access_tokens, activity_logs, nextToken, handed,
                   launch_reqs, proxy_inflight, launched>>

\* ------------------------------------------------ routes/ip_management.py

\* `for ip_entry in user_ips: if "/" in ip_entry:
\*      network = ip_entry.split("/")[0].rsplit(".", 1)[0]
\*      if client_ip.startswith(network): return True`
cidr_check(user_ips, client_ip) ==
    \E ip_entry \in user_ips :
        /\ str_contains(ip_entry, "/")
        /\ startswith(client_ip, rsplit_first(split_first(ip_entry, "/"), "."))

\* check_ip_allowed(user, client_ip, db); db.ip_whitelist is the set of the
\* documents of the global whitelist.
check_ip_allowed(user, client_ip, db) ==
    IF user.role = SuperAdmin THEN TRUE
    ELSE IF ~user.ip_restriction_enabled THEN TRUE
    ELSE IF client_ip \in user.whitelisted_ips THEN TRUE
    ELSE IF \E d \in db.ip_whitelist : d.ip = client_ip /\ d.status = "Active"
         THEN TRUE
    ELSE cidr_check(user.whitelisted_ips, client_ip)

\* The users, addresses and global whitelists check_ip_allowed is called on.
IpUsers ==
    [role : {SuperAdmin, "Administrator", "User"},
     ip_restriction_enabled : BOOLEAN,
     whitelisted_ips : SUBSET {entry_string(e) : e \in WhitelistEntries}]
IpWhitelists ==
    { {},
      {[ip |-> dotted(<<10, 0, 12, 7>>), status |-> "Active"]},
      {[ip |-> dotted(<<10, 0, 12, 7>>), status |-> "Inactive"]} }

\* One call of check_ip_allowed (it awaits the one find_one only).
call_check_ip_allowed(user, addr, whitelist) ==
    /\ ip_check' = {[user |-> user, addr |-> addr, whitelist |-> whitelist,
                     allowed |-> check_ip_allowed(user, dotted(addr),
                                                  [ip_whitelist |-> whitelist])]}
    /\ UNCHANGED <<core, outer, client_host, tools_resp, decrypt_resp, login_result>>

\* ---------------------------------------------------------- routes/tools.py

\* What tool["credentials"] can hold: None (or no such key), an empty dict,
\* or a dict of the fields create_tool stores.
NoneValue == [kind |-> "None"]
CredentialValues ==
    { NoneValue,
      [kind |-> "dict", items |-> EmptyDict],
      [kind |-> "dict", items |-> [username |-> "user", password |-> "pw"]],
      [kind |-> "dict", items |-> [username |-> "", password |-> ""]] }
\* Python's bool() of such a value
truthy(v) == v.kind = "dict" /\ DOMAIN v.items # {}

\* The contents of db.tools the two read handlers are run on.
ToolCollections ==
    [{"aa", "bb"} -> [name : {"RMIS"}, url : {"https://rmis"},
                      credentials : CredentialValues]]
Callers == [role : {SuperAdmin, "Administrator", "User"}]

\* (mutant) administrators are shown the credentials too.
is_super_admin_or_admin(current_user) ==
    current_user.role \in {SuperAdmin, "Administrator"}

\* `is_super_admin = current_user.get("role") == "Super Administrator"`
is_super_admin(current_user) == current_user.role = SuperAdmin

\* The tool_data dict both handlers build for one document of db.tools.
tool_data(id, tool, current_user) ==
    LET base == [id |-> id, name |-> tool.name, url |-> tool.url,
                 has_credentials |-> truthy(tool.credentials)]
    IN  IF is_super_admin(current_user) /\ truthy(tool.credentials)
        THEN DictSet(base, "credentials", tool.credentials)
        ELSE base

\* GET /api/tools
get_tools(current_user, tools) ==
    /\ tools_resp' =
          {[op |-> "get_tools", current_user |-> current_user, status |-> 200,
            db_tools |-> tools,
            tools |-> {tool_data(id, tools[id], current_user) : id \in DOMAIN tools}]}
    /\ UNCHANGED <<core, outer, client_host, ip_check, decrypt_resp, login_result>>

\* GET /api/tools/{tool_id}
get_tool(tool_id, current_user, tools) ==
    LET obj_id == ObjectId(tool_id)
        answer(status, found) ==
            tools_resp' = {[op |-> "get_tool", current_user |-> current_user,
                            status |-> status, db_tools |-> tools,
                            tools |-> found]}
    IN
    /\ IF obj_id = <<>> THEN answer(400, {})
       ELSE IF obj_id[1] \notin DOMAIN tools THEN answer(404, {})
       ELSE answer(200, {tool_data(obj_id[1], tools[obj_id[1]], current_user)})
    /\ UNCHANGED <<core, outer, client_host, ip_check, decrypt_resp, login_result>>

\* ------------------------- POST /api/secure-access/decrypt-payload
\* The ExtensionPayload delivery (spec section 4.4; the handler is exercised
\* by tests/test_security.py): the credentials are encrypted into a payload
\* that lives two minutes, and the decrypt endpoint checks the declared
\* Origin against an allow-list before it decrypts.
PAYLOAD_TTL == 2
PayloadKey == "payload-key"
TrustedOrigins == {"chrome-extension://abcdefghijklmnop"}
Origins ==
    TrustedOrigins \cup
        {"https://malicious-site.com", "https://portal.dsgtransport.net", ""}

\* Authenticated encryption: only the key that sealed a payload opens it.
encrypt(key, plain) == [sealed_with |-> key, plain |-> plain]
decrypt(key, payload) ==
    IF payload.sealed_with = key THEN {payload.plain} ELSE {}

\* The payload issued at instant t for a credential.
extension_payload(credentials, t) ==
    encrypt(PayloadKey, [u |-> credentials.username, p |-> credentials.password,
                         expires_at |-> t + PAYLOAD_TTL])
\* The payloads a client can send: issued ones, and one sealed by someone
\* else.
Payloads ==
    {extension_payload(c, t) :
        c \in {SecretsDB.rmis, [username |-> "user2", password |-> "pw2"]},
        t \in 0..1}
      \cup {encrypt("other-key", [u |-> "x", p |-> "y", expires_at |-> PAYLOAD_TTL])}

\* (mutant) every origin is trusted.
origin_allowed_any(origin) == TRUE

origin_allowed(origin) == origin \in TrustedOrigins

\* The decrypt endpoint.
decrypt_payload(origin, payload) ==
    LET opened == decrypt(PayloadKey, payload)
        answer(success, u, pw, error) ==
            decrypt_resp' = {[origin |-> origin, payload |-> payload, at |-> now,
                              success |-> success, u |-> u, p |-> pw,
                              error |-> error]}
    IN
    /\ IF ~origin_allowed(origin)
       THEN answer(FALSE, "", "", "Invalid origin")
       ELSE IF opened = {} THEN answer(FALSE, "", "", "Decryption failed")
       ELSE LET plain == CHOOSE x \in opened : TRUE IN
            IF now > plain.expires_at
            THEN answer(FALSE, "", "", "Decryption failed")
            ELSE answer(TRUE, plain.u, plain.p, "")
    /\ UNCHANGED <<core, outer, client_host, ip_check, tools_resp, login_result>>

\* ------------------------------------------- services/tool_login_service.py

\* A URL is its host, the word of its path, and the URL carried in its
\* ?next= parameter (<<>> when there is none); the program holds it as a
\* string, modelled as the sequence of its parts.
Url(host, word, next) == [host |-> host, word |-> word, next |-> next]
RECURSIVE url_string(_)
url_string(u) ==
    <<"https://", u.host, "/", u.word>>
        \o (IF u.next = <<>> THEN <<>> ELSE <<"?next=">> \o url_string(u.next[1]))

\* Python's `p in s` on strings, and s.lower()
is_substring(p, s) ==
    \E i \in 0..(Len(s) - Len(p)) : SubSeq(s, i + 1, i + Len(p)) = p
lower_word(w) == IF w = "Login" THEN "login" ELSE w
lower(s) == [i \in 1..Len(s) |-> lower_word(s[i])]

\* The login pages tried, and where the browser can be after the submit.
LoginUrls ==
    {Url("tool.com", w, <<>>) : w \in {"login", "signin", "auth"}}
FinalUrls ==
    {Url(h, w, n) : h \in {"tool.com", "sso.com"},
                    w \in {"login", "Login", "signin", "auth", "dashboard"},
                    n \in {<<>>} \cup {<<l>> : l \in LoginUrls}}
\* What the headless browser does: a field is not found, a call raises, or
\* the form is submitted and the page ends on final_url with these cookies.
BrowserRuns ==
    {[outcome |-> o, final_url |-> Url("tool.com", "login", <<>>), cookies |-> {}] :
        o \in {"no username field", "no password field", "exception"}}
      \cup {[outcome |-> "submitted", final_url |-> f, cookies |-> c] :
              f \in FinalUrls, c \in {{}, {"sid"}}}

\* `if 'login' in final_url.lower() and login_url in final_url`
still_on_login_page(login_url, final_url) ==
    /\ is_substring(<<"login">>, lower(final_url))
    /\ is_substring(login_url, final_url)

\* server_login_to_tool: the dict it returns; cookies is the set holding the
\* captured cookies when the dict has the key.
server_login_to_tool(login_url, browser) ==
    LET final_url == url_string(browser.final_url)
        result ==
            IF browser.outcome = "no username field"
            THEN [success |-> FALSE, cookies |-> {},
                  error |-> "Could not find username field"]
            ELSE IF browser.outcome = "no password field"
            THEN [success |-> FALSE, cookies |-> {},
                  error |-> "Could not find password field"]
            ELSE IF browser.outcome = "exception"
            THEN [success |-> FALSE, cookies |-> {}, error |-> "Login error"]
            ELSE IF still_on_login_page(url_string(login_url), final_url)
            THEN [success |-> FALSE, cookies |-> {},
                  error |-> "Login failed - please verify credentials"]
            ELSE [success |-> TRUE, cookies |-> {browser.cookies}, error |-> ""]
    IN
    /\ login_result' = {[login_url |-> login_url, browser |-> browser,
                         result |-> result]}
    /\ UNCHANGED <<core, outer, client_host, ip_check, tools_resp, decrypt_resp>>

\* --------------------------------------------------------- routes/auth.py

SUPER_ADMIN_EMAIL == "info@dsgtransport.net"
AuthEmails == {AuthUsersDB[u].email : u \in DOMAIN AuthUsersDB} \cup {"nobody@dsg"}

\* jwt.encode: the claims of the token, exp set minutes from now.
create_access_token(sub, type, minutes) ==
    [sub |-> sub, type |-> type, exp |-> now + minutes]

create_temp_token(user_id) == create_access_token(user_id, "otp_pending", OTP_TTL)

\* jwt.decode: None for a token this server did not sign or whose exp is past.
decode_token(token) == IF token \in jwts /\ now <= token.exp THEN {token} ELSE {}

auth_reply(op, user, status, detail, token) ==
    auth_resp' = {[op |-> op, user |-> user, status |-> status,
                   detail |-> detail, token |-> token]}

\* generate_otp and the $set of pending_otp and otp_expires.
store_otp(id) ==
    /\ nextOtp <= MaxOtps
    /\ pending_otp' = [pending_otp EXCEPT
                          ![id] = {[otp |-> nextOtp, otp_expires |-> now + OTP_TTL]}]
    /\ nextOtp' = nextOtp + 1

\* POST /api/auth/login; password_ok is what verify_password returns.
login(email, password_ok) ==
    LET found == {u \in DOMAIN AuthUsersDB : AuthUsersDB[u].email = email}
        refuse(status, detail) ==
            /\ auth_reply("login", "", status, detail, {})
            /\ UNCHANGED <<pending_otp, nextOtp, jwts>>
    IN
    /\ UNCHANGED <<core, helpers, user_vars, ws_vars, verify_reqs>>
    /\ IF found = {} THEN refuse(401, "Invalid email or password")
       ELSE LET id == CHOOSE u \in found : TRUE
                user == AuthUsersDB[id]
            IN
            IF email # SUPER_ADMIN_EMAIL /\ ~user.password_login_enabled
            THEN refuse(403, "Password login not enabled for this account")
            ELSE IF ~password_ok THEN refuse(401, "Invalid email or password")
            ELSE IF user.status = "Suspended" THEN refuse(403, "Account is suspended")
            ELSE IF user.two_sv_enabled
            THEN /\ store_otp(id)
                 /\ jwts' = jwts \cup {create_temp_token(id)}
                 /\ auth_reply("login", id, 200, "OTP sent to your email", {create_temp_token(id)})
            ELSE LET access_token == create_access_token(id, "", ACCESS_TOKEN_EXPIRE_MINUTES) IN
                 /\ jwts' = jwts \cup {access_token}
                 /\ auth_reply("login", id, 200, "", {access_token})
                 /\ UNCHANGED <<pending_otp, nextOtp>>

\* The comparison of the stored code with the presented one (mutant: any code).
otp_matches_any(stored, otp) == TRUE
otp_matches(stored, otp) == stored # {} /\ (\E s \in stored : s.otp = otp)

\* POST /api/auth/verify-otp up to its `await db.users.update_one`: the token
\* is decoded, the user is read and the code is checked against what was read.
\* A call that passes the checks goes on in verify_otp_update_one.
verify_otp(temp_token, otp) ==
    LET payload == decode_token(temp_token)
        refuse(detail) ==
            /\ auth_reply("verify_otp", temp_token.sub, 401, detail, {temp_token})
            /\ UNCHANGED verify_reqs
    IN
    /\ UNCHANGED <<core, helpers, user_vars, ws_vars, pending_otp, nextOtp, jwts>>
    /\ IF payload = {} \/ temp_token.type # "otp_pending"
       THEN refuse("Invalid or expired verification session")
       ELSE IF temp_token.sub \notin DOMAIN AuthUsersDB
       THEN refuse("User not found")
       ELSE LET stored == pending_otp[temp_token.sub] IN
            IF ~otp_matches(stored, otp)
            THEN refuse("Invalid OTP code")
            ELSE IF \E s \in stored : now > s.otp_expires
            THEN refuse("OTP has expired. Please request a new one.")
            ELSE /\ Len(verify_reqs) < MaxVerify
                 /\ verify_reqs' = Append(verify_reqs,
                        [temp_token |-> temp_token, otp |-> otp, st |-> "update_one",
                         status |-> 0, stored |-> stored, read_at |-> now,
                         access_token |-> {}])
                 /\ UNCHANGED auth_resp

\* ... and from that await on: the code is unset and the access token signed.
verify_otp_update_one(i) ==
    LET r == verify_reqs[i]
        access_token == create_access_token(r.temp_token.sub, "", ACCESS_TOKEN_EXPIRE_MINUTES)
    IN
    /\ r.st = "update_one"
    /\ pending_otp' = [pending_otp EXCEPT ![r.temp_token.sub] = {}]
    /\ jwts' = jwts \cup {access_token}
    /\ verify_reqs' = [verify_reqs EXCEPT ![i] =
           [r EXCEPT !.st = "done", !.status = 200, !.access_token = {access_token}]]
    /\ UNCHANGED <<core, helpers, user_vars, ws_vars, nextOtp, auth_resp>>

\* POST /api/auth/resend-otp; email_ok is whether send_otp_email returned.
resend_otp(temp_token, email_ok) ==
    LET payload == decode_token(temp_token) IN
    /\ UNCHANGED <<core, helpers, user_vars, ws_vars, jwts, verify_reqs>>
    /\ IF payload = {}
       THEN /\ auth_reply("resend_otp", "", 401, "Invalid verification session", {})
            /\ UNCHANGED <<pending_otp, nextOtp>>
       ELSE IF temp_token.sub \notin DOMAIN AuthUsersDB
       THEN /\ auth_reply("resend_otp", "", 401, "User not found", {})
            /\ UNCHANGED <<pending_otp, nextOtp>>
       ELSE /\ store_otp(temp_token.sub)
            /\ IF email_ok
               THEN auth_reply("resend_otp", temp_token.sub, 200, "OTP resent", {})
               ELSE auth_reply("resend_otp", temp_token.sub, 500, "Failed to send OTP", {})

\* The dependency of every protected endpoint.
get_current_user(token) ==
    LET payload == decode_token(token)
        reply(status, detail) == auth_reply("get_current_user", token.sub, status, detail, {token})
    IN
    /\ UNCHANGED <<core, helpers, user_vars, ws_vars, pending_otp, nextOtp, jwts, verify_reqs>>
    /\ IF payload = {} THEN reply(401, "Invalid or expired token")
       ELSE IF token.type = "otp_pending" THEN reply(401, "Please complete 2-step verification")
       ELSE IF token.sub \notin DOMAIN AuthUsersDB THEN reply(401, "User not found")
       ELSE IF AuthUsersDB[token.sub].status = "Suspended" THEN reply(403, "Account is suspended")
       ELSE reply(200, "")

\* --------------------------------------------- utils/websocket_manager.py

\* The keys websocket_endpoint registers connections under, and the messages.
WsKeys == {"u1", "u2", "a1"}
WsMessages == {[type |-> "refresh_dashboard", action |-> "", tool_ids |-> {}]}

\* list.remove(x): the first occurrence of x leaves the list.
RECURSIVE list_remove(_, _)
list_remove(l, x) ==
    IF l = <<>> THEN <<>>
    ELSE IF Head(l) = x THEN Tail(l)
    ELSE <<Head(l)>> \o list_remove(Tail(l), x)

\* `if not self.active_connections[user_email]` (mutant: the empty list stays).
is_empty_never(l) == FALSE
is_empty(l) == l = <<>>

\* ConnectionManager.connect after `await websocket.accept()`, on manager m.
\* A list created here is a new object: lists[id] is the object with id `id`.
connected(m, websocket, user_email) ==
    LET m1 == IF user_email \notin DOMAIN m.active_connections
              THEN [m EXCEPT !.lists = Append(@, <<>>),
                             !.active_connections = DictSet(@, user_email, Len(m.lists) + 1)]
              ELSE m
        id == m1.active_connections[user_email]
    IN [m1 EXCEPT !.lists[id] = Append(@, websocket),
                  !.connection_users = DictSet(@, websocket, user_email)]

\* ConnectionManager.disconnect, on manager m.
disconnected(m, websocket) ==
    IF websocket \notin DOMAIN m.connection_users THEN m
    ELSE LET user_email == m.connection_users[websocket]
             m1 == IF user_email \notin DOMAIN m.active_connections THEN m
                   ELSE LET id == m.active_connections[user_email]
                            l == list_remove(m.lists[id], websocket)
                        IN [m EXCEPT !.lists[id] = l,
                                     !.active_connections =
                                         IF is_empty(l) THEN DictDel(@, user_email) ELSE @]
         IN [m1 EXCEPT !.connection_users = DictDel(@, websocket)]

\* `for conn in disconnected: self.disconnect(conn)`
RECURSIVE disconnect_all(_, _)
disconnect_all(m, conns) ==
    IF conns = <<>> THEN m
    ELSE disconnect_all(disconnected(m, Head(conns)), Tail(conns))

\* manager.connect(websocket, user_email) with a websocket of its own.
manager_connect(user_email) ==
    /\ nextSocket <= MaxSockets
    /\ manager' = connected(manager, nextSocket, user_email)
    /\ nextSocket' = nextSocket + 1
    /\ UNCHANGED <<core, helpers, auth_vars, user_vars, sends>>

\* manager.disconnect(websocket), as websocket_endpoint calls it when
\* receive_text raises WebSocketDisconnect.
disconnect(websocket) ==
    /\ manager' = disconnected(manager, websocket)
    /\ UNCHANGED <<core, helpers, auth_vars, user_vars, nextSocket, sends>>

\* ConnectionManager.send_to_user up to its first `await connection.send_json`:
\* the loop iterates over the list object itself, at position idx.
send_to_user(user_email, message) ==
    IF user_email \in DOMAIN manager.active_connections
    THEN LET id == manager.active_connections[user_email]
             l == manager.lists[id]
         IN
         /\ Len(sends) < MaxSends
         /\ l # <<>>
         /\ sends' = Append(sends,
                [user_email |-> user_email, message |-> message, list |-> id,
                 idx |-> 1, connection |-> l[1], attempted |-> {l[1]},
                 disconnected |-> <<>>, unregistered |-> {},
                 at_start |-> {l[i] : i \in 1..Len(l)}, st |-> "send_json"])
    ELSE UNCHANGED sends

\* `await connection.send_json(message)` of call k returns (ok) or raises: the
\* loop takes the next position of the list as it is now, or ends and
\* disconnects the connections whose send raised.
send_json(k, ok) ==
    LET r == sends[k]
        l == manager.lists[r.list]
        disc == IF ok THEN r.disconnected ELSE Append(r.disconnected, r.connection)
        m == disconnect_all(manager, disc)
    IN
    /\ r.st = "send_json"
    /\ IF r.idx + 1 <= Len(l)
       THEN /\ sends' = [sends EXCEPT ![k] =
                   [r EXCEPT !.idx = r.idx + 1, !.connection = l[r.idx + 1],
                             !.attempted = @ \cup {l[r.idx + 1]}, !.disconnected = disc]]
            /\ UNCHANGED manager
       ELSE /\ manager' = m
            /\ sends' = [sends EXCEPT ![k] =
                   [r EXCEPT !.disconnected = disc, !.st = "done",
                             !.unregistered = DOMAIN manager.connection_users
                                                  \ DOMAIN m.connection_users]]
    /\ UNCHANGED <<core, helpers, auth_vars, user_vars, nextSocket>>

\* -------------------------------------------------------- routes/users.py

\* The callers (get_current_user reads id, role and email from db.users),
\* the ids in the path and the lists in the body.
AdminCallers == {"sa", "a1", "a2", "u1"}
UserIdInputs == {"u1", "U1", "u2", "a1", "a2", "ee", "zz!"}
ToolIdLists == {{}, {"aa"}, {"aa", "bb"}}
UserIdLists == {{}, {"u1"}, {"u1", "u2"}, {"U1", "sa", "a2", "ee", "zz!"}}

\* log_activity(...) of an administration handler.
users_log(caller, action, target) ==
    [user_email |-> db_users[caller].email, action |-> action,
     target |-> target, activity_type |-> "admin"]

\* notify_tool_access_change -> manager.send_to_user(user_email, {...})
notify_tool_access_change(user_email, tool_ids, action) ==
    send_to_user(user_email,
        [type |-> "tool_access_updated", action |-> action, tool_ids |-> tool_ids])

\* Whether an Administrator may set tool_ids for user_id (mutant: the tools
\* of the new list are not compared with the administrator's own).
admin_may_assign_any_tool(admin_data, user_id, tool_ids) ==
    user_id \in admin_data.assigned_users
admin_may_assign(admin_data, user_id, tool_ids) ==
    /\ user_id \in admin_data.assigned_users
    /\ \A t \in tool_ids : t \in admin_data.allowed_tools

\* PUT /api/users/{user_id}/tool-access
update_tool_access(caller, user_id, tool_ids) ==
    LET current_user == db_users[caller]
        obj_id == ObjectId(user_id)
        reply(status, detail) ==
            users_resp' = {[op |-> "update_tool_access", caller |-> caller,
                            id |-> user_id, ids |-> tool_ids,
                            status |-> status, detail |-> detail]}
        refuse(status, detail) ==
            /\ reply(status, detail)
            /\ UNCHANGED <<db_users, activity_logs, sends>>
    IN
    /\ UNCHANGED <<now, access_tokens, gateway_sessions, nextToken, handed,
                   launch_reqs, proxy_inflight, resp, launched, ended>>
    /\ UNCHANGED <<helpers, auth_vars, manager, nextSocket>>
    /\ IF current_user.role \notin {"Administrator", SuperAdmin}
       THEN refuse(403, "Admin access required")
       ELSE IF obj_id = <<>> THEN refuse(400, "Invalid user ID")
       ELSE IF obj_id[1] \notin DOMAIN db_users THEN refuse(404, "User not found")
       ELSE IF current_user.role = "Administrator"
               /\ ~admin_may_assign(current_user, user_id, tool_ids)
       THEN IF user_id \notin current_user.assigned_users
            THEN refuse(403, "You can only assign tools to users assigned to you")
            ELSE refuse(403, "You can only assign tools that are assigned to you")
       ELSE LET user == db_users[obj_id[1]]
                previous_tools == user.allowed_tools
                added_tools == tool_ids \ previous_tools
                removed_tools == previous_tools \ tool_ids
                action == IF added_tools # {} /\ removed_tools = {} THEN "granted"
                          ELSE IF removed_tools # {} /\ added_tools = {} THEN "revoked"
                          ELSE "updated"
            IN
            /\ Len(activity_logs) < MaxAdminCalls
            /\ db_users' = [db_users EXCEPT ![obj_id[1]].allowed_tools = tool_ids]
            /\ activity_logs' = Append(activity_logs,
                                       users_log(caller, "Assigned Tools", user.email))
            /\ IF added_tools # {} \/ removed_tools # {}
               THEN notify_tool_access_change(user.email, tool_ids, action)
               ELSE UNCHANGED sends
            /\ reply(200, "Tool access updated")

\* PUT /api/users/{admin_id}/assign-users
assign_users_to_admin(caller, admin_id, user_ids) ==
    LET current_user == db_users[caller]
        admin_obj_id == ObjectId(admin_id)
        reply(status, detail, assigned) ==
            users_resp' = {[op |-> "assign_users_to_admin", caller |-> caller,
                            id |-> admin_id, ids |-> assigned,
                            status |-> status, detail |-> detail]}
        refuse(status, detail) ==
            /\ reply(status, detail, user_ids)
            /\ UNCHANGED <<db_users, activity_logs>>
    IN
    /\ UNCHANGED <<now, access_tokens, gateway_sessions, nextToken, handed,
                   launch_reqs, proxy_inflight, resp, launched, ended>>
    /\ UNCHANGED <<helpers, auth_vars, ws_vars>>
    /\ IF current_user.role \notin {"Administrator", SuperAdmin}
       THEN refuse(403, "Admin access required")
       ELSE IF current_user.role # SuperAdmin
       THEN refuse(403, "Only Super Administrator can assign users to Admins")
       ELSE IF admin_obj_id = <<>> THEN refuse(400, "Invalid admin ID")
       ELSE IF admin_obj_id[1] \notin DOMAIN db_users THEN refuse(404, "Admin not found")
       ELSE IF db_users[admin_obj_id[1]].role # "Administrator"
       THEN refuse(400, "Target user is not an Administrator")
       ELSE LET valid_user_ids ==
                    {uid \in user_ids :
                        /\ ObjectId(uid) # <<>>
                        /\ ObjectId(uid)[1] \in DOMAIN db_users
                        /\ db_users[ObjectId(uid)[1]].role # SuperAdmin
                        /\ uid # admin_id}
                assigned == {ObjectId(uid)[1] : uid \in valid_user_ids}
            IN
            /\ Len(activity_logs) < MaxAdminCalls
            /\ db_users' = [u \in DOMAIN db_users |->
                   LET d == IF u = admin_obj_id[1]
                            THEN [db_users[u] EXCEPT !.assigned_users = valid_user_ids]
                            ELSE db_users[u]
                   IN IF u \in assigned THEN [d EXCEPT !.managed_by = {admin_id}]
                      ELSE IF d.managed_by = {admin_id} THEN [d EXCEPT !.managed_by = {}]
                      ELSE d]
            /\ activity_logs' = Append(activity_logs,
                   users_log(caller, "Assigned Users to Admin",
                             db_users[admin_obj_id[1]].email))
            /\ reply(200, "Users assigned", valid_user_ids)

\* --------------------------------------------- server.py: /ws/{token}

\* websocket_endpoint up to its receive loop: the token is decoded and the
\* connection registered under its sub; a token that does not decode closes
\* the socket (4002, 4003).
websocket_endpoint(token) ==
    /\ nextSocket <= MaxSockets
    /\ IF decode_token(token) = {}
       THEN UNCHANGED manager
       ELSE manager' = connected(manager, nextSocket, token.sub)
    /\ nextSocket' = nextSocket + 1
    /\ UNCHANGED <<core, helpers, auth_vars, user_vars, sends>>

\* db.ip_whitelist while the issuance handlers run.
IpWhitelistDB == {[ip |-> dotted(<<10, 0, 12, 7>>), status |-> "Active"]}

\* The next requests come over a connection from addr (request.client.host).
connect(addr) ==
    /\ client_host' = addr
    /\ UNCHANGED <<core, outer, ip_check, tools_resp, decrypt_resp, login_result>>

\* ------------------------------------------------------- specifications

\* The access-token subsystem (routes/secure_access.py) and the clock.  The
\* links launched are those a response handed out; launch_tool's branch for
\* a hash that is not stored is reached once such a token has been deleted.
NextAccess ==
    \/ \E d \in AccessTickSteps : Tick(d, MaxAccessTime)
    \/ \E r \in GrantRequests : request_tool_access(r[1], r[2], TRUE)
    \/ \E t \in DOMAIN handed : launch_arrive(t)
    \/ \E i \in 1..Len(launch_reqs) : launch_tool(i)
    \/ \E u \in Users : cleanup_expired_tokens(u)

SpecAccess == Init /\ [][NextAccess]_vars

\* The gateway subsystem (routes/gateway.py) and the clock.
NextGateway ==
    \/ \E d \in GatewayTickSteps : Tick(d, MaxTime)
    \/ \E r \in GrantRequests : start_gateway_session(r[1], r[2], TRUE)
    \/ \E t \in Presentable : view_tool_gateway(t)
    \/ \E t \in Presentable : proxy_tool_request(t, MaxInflight)
    \/ \E i \in 1..Len(proxy_inflight), a \in UpstreamAnswers :
          proxy_tool_response(i, a)
    \/ \E u \in Users, t \in Presentable : end_gateway_session(u, t)

SpecGateway == Init /\ [][NextGateway]_vars

\* The two issuance handlers on every input, audit-log failures included.
NextIssue ==
    \/ \E u \in Users, tid \in ToolIdInputs, ok \in BOOLEAN :
          request_tool_access(u, tid, ok)
    \/ \E u \in Users, tid \in ToolIdInputs, ok \in BOOLEAN :
          start_gateway_session(u, tid, ok)

SpecIssue == Init /\ [][NextIssue]_vars

\* The delivery of the credentials: the grants and the documents rendered
\* for them.
NextDelivery ==
    \/ \E r \in GrantRequests : request_tool_access(r[1], r[2], TRUE)
    \/ \E t \in DOMAIN handed : launch_arrive(t)
    \/ \E i \in 1..Len(launch_reqs) : launch_tool(i)
    \/ \E r \in GrantRequests : start_gateway_session(r[1], r[2], TRUE)
    \/ \E t \in Presentable : view_tool_gateway(t)

SpecDelivery == Init /\ [][NextDelivery]_vars

\* The proxy with several requests of one session awaiting the upstream
\* together; the session may be ended under them.
NextProxy ==
    \/ \E r \in GrantRequests : start_gateway_session(r[1], r[2], TRUE)
    \/ \E t \in DOMAIN handed : proxy_tool_request(t, MaxProxyInflight)
    \/ \E i \in 1..Len(proxy_inflight), a \in ProxyAnswers :
          proxy_tool_response(i, a)
    \/ \E t \in DOMAIN handed : end_gateway_session(handed[t].user, t)

SpecProxy == Init /\ [][NextProxy]_vars

\* The issuance handlers, reached from every address.
NextNetIssue ==
    \/ \E addr \in ClientAddrs : connect(addr)
    \/ \E u \in Users, tid \in ToolIdInputs :
          request_tool_access(u, tid, TRUE)
    \/ \E u \in Users, tid \in ToolIdInputs :
          start_gateway_session(u, tid, TRUE)

SpecNetIssue == Init /\ [][NextNetIssue]_vars

\* The read handlers of routes/tools.py on their inputs.
NextTools ==
    \/ \E u \in Callers, tools \in ToolCollections : get_tools(u, tools)
    \/ \E tid \in ToolIdInputs, u \in Callers, tools \in ToolCollections :
          get_tool(tid, u, tools)

SpecTools == Init /\ [][NextTools]_vars

\* The decrypt endpoint on its inputs, as the payloads age.
NextDecrypt ==
    \/ Tick(1, MaxDecryptTime)
    \/ \E origin \in Origins, payload \in Payloads :
          decrypt_payload(origin, payload)

SpecDecrypt == Init /\ [][NextDecrypt]_vars

\* The server-side login on its inputs.
NextLogin ==
    \E login_url \in LoginUrls, browser \in BrowserRuns :
        server_login_to_tool(login_url, browser)

SpecLogin == Init /\ [][NextLogin]_vars

\* Sign-in with a password (routes/auth.py) and the clock.  The tokens
\* presented are those the server signed and one it did not.
ForgedJwt == [sub |-> "u1", type |-> "", exp |-> MaxAuthTime + ACCESS_TOKEN_EXPIRE_MINUTES]
PresentedJwts == jwts \cup {ForgedJwt}
PresentedOtps == {0} \cup UNION {{s.otp : s \in pending_otp[u]} : u \in DOMAIN AuthUsersDB}

NextAuth ==
    \/ \E email \in AuthEmails, password_ok \in BOOLEAN : login(email, password_ok)
    \/ \E t \in PresentedJwts, otp \in PresentedOtps : verify_otp(t, otp)
    \/ \E i \in 1..Len(verify_reqs) : verify_otp_update_one(i)
    \/ \E t \in PresentedJwts, email_ok \in BOOLEAN : resend_otp(t, email_ok)
    \/ \E t \in PresentedJwts : get_current_user(t)
    \/ \E d \in AuthTickSteps : Tick(d, MaxAuthTime)

SpecAuth == Init /\ [][NextAuth]_vars

\* Connections come and go (ConnectionManager.connect and disconnect).
NextConnections ==
    \/ \E u \in WsKeys : manager_connect(u)
    \/ \E w \in 1..MaxSockets : disconnect(w)

SpecConnections == Init /\ [][NextConnections]_vars

\* The connection manager (utils/websocket_manager.py): connections come
\* and go while send_to_user calls are under way.
NextSockets ==
    \/ \E u \in WsKeys : manager_connect(u)
    \/ \E w \in 1..MaxSockets : disconnect(w)
    \/ \E u \in WsKeys, msg \in WsMessages :
          /\ u \in DOMAIN manager.active_connections
          /\ send_to_user(u, msg)
          /\ UNCHANGED <<core, helpers, auth_vars, user_vars, manager, nextSocket>>
    \/ \E k \in 1..Len(sends), ok \in BOOLEAN : send_json(k, ok)

SpecSockets == Init /\ [][NextSockets]_vars

\* Tool assignment by administrators (routes/users.py).
NextToolAccess ==
    \E caller \in AdminCallers, user_id \in UserIdInputs, tool_ids \in ToolIdLists :
        update_tool_access(caller, user_id, tool_ids)

SpecToolAccess == Init /\ [][NextToolAccess]_vars

\* Assignment of users to administrators (routes/users.py).
NextAssign ==
    \E caller \in AdminCallers, admin_id \in UserIdInputs, user_ids \in UserIdLists :
        assign_users_to_admin(caller, admin_id, user_ids)

SpecAssign == Init /\ [][NextAssign]_vars

\* Users sign in, open their websocket with the access token they got, and
\* administrators change their tools.
NextNotify ==
    \/ \E email \in AuthEmails : login(email, TRUE)
    \/ \E t \in {j \in PresentedJwts : j.type = ""} : websocket_endpoint(t)
    \/ \E w \in 1..MaxSockets : disconnect(w)
    \/ \E caller \in {"sa", "a1"}, user_id \in {"u1", "u2"}, tool_ids \in ToolIdLists :
          update_tool_access(caller, user_id, tool_ids)

SpecNotify == Init /\ [][NextNotify]_vars

\* The IP check on its inputs.
NextIpCheck ==
    \E user \in IpUsers, addr \in ClientAddrs, whitelist \in IpWhitelists :
        call_check_ip_allowed(user, addr, whitelist)

SpecIpCheck == Init /\ [][NextIpCheck]_vars

\* The whole broker.
Next ==
    \/ NextAccess \/ NextGateway \/ NextIssue \/ NextDelivery \/ NextProxy
    \/ NextNetIssue \/ NextIpCheck \/ NextTools \/ NextDecrypt \/ NextLogin
    \/ NextAuth \/ NextConnections \/ NextSockets
    \/ NextToolAccess \/ NextAssign \/ NextNotify

Spec == Init /\ [][Next]_vars

\* ================================================================= claims

\* The launch requests whose handler has run, for a token that was issued.
DoneLaunches ==
    {i \in 1..Len(launch_reqs) :
        launch_reqs[i].st = "done" /\ launch_reqs[i].token \in DOMAIN handed}
\* The instant an issued access token expires, from the issuance alone.
Expiry(token) == handed[token].issued_at + ACCESS_TOKEN_TTL
LaunchSucceeded(r) == r.status \in {200, 302}
AlreadyUsed(r) == r.status = 403 /\ r.body = "Access Link Already Used"

\* C1: of all the launch_tool calls made with one issued access token before
\* its expiry at most one succeeds, and every call after the successful one
\* gets the 403 'Access Link Already Used' page.
C1_OneTimeLaunch ==
    /\ \A t \in Tokens : launched[t] <= 1
    /\ \A i \in DoneLaunches :
          LET r == launch_reqs[i] IN
          (r.prior /\ r.at < Expiry(r.token)) => AlreadyUsed(r)

\* C1 witness: a second launch of a consumed, unexpired token was answered,
\* a tick after the first.
C1_Witness ==
    \E i \in DoneLaunches :
        LET r == launch_reqs[i] IN
        /\ r.prior /\ r.at < Expiry(r.token) /\ r.at > handed[r.token].issued_at
        /\ AlreadyUsed(r)

\* Two launch requests were in flight together for a token that no launch had
\* consumed when they arrived, and both ran before the token expired.
ConcurrentPair(i, j) ==
    LET a == launch_reqs[i]
        b == launch_reqs[j]
    IN  /\ i \in DoneLaunches /\ j \in DoneLaunches
        /\ i \in b.seen
        /\ a.token = b.token
        /\ a.fresh /\ b.fresh
        /\ a.at < Expiry(a.token) /\ b.at < Expiry(b.token)

\* C2: of two concurrent launch_tool requests for the same freshly issued,
\* unexpired token at most one succeeds and each one that does not succeed
\* gets 'Already Used'; when no third request for the token ran, exactly one
\* of the two succeeds.
C2_SingleWinner ==
    \A i, j \in 1..Len(launch_reqs) :
        ConcurrentPair(i, j) =>
            LET a == launch_reqs[i]
                b == launch_reqs[j]
            IN  /\ ~(LaunchSucceeded(a) /\ LaunchSucceeded(b))
                /\ LaunchSucceeded(a) \/ AlreadyUsed(a)
                /\ LaunchSucceeded(b) \/ AlreadyUsed(b)
                /\ (\A k \in DoneLaunches :
                        launch_reqs[k].token = a.token => k \in {i, j})
                    => (LaunchSucceeded(a) \/ LaunchSucceeded(b))

\* C2 witness: the request that arrived second won the race.
C2_Witness ==
    \E i, j \in 1..Len(launch_reqs) :
        /\ ConcurrentPair(i, j)
        /\ LaunchSucceeded(launch_reqs[j])
        /\ AlreadyUsed(launch_reqs[i])

\* C3 (as claimed): every launch_tool call made after the token's expiry
\* returns the Expired outcome, also when an earlier call already saw the
\* expiry.
C3_AlwaysExpired ==
    \A i \in DoneLaunches :
        LET r == launch_reqs[i] IN
        r.at > Expiry(r.token) =>
            (r.status = 403 /\ r.body = "Access Link Expired")

\* C3 (amended): a launch_tool call made after the token's expiry never
\* succeeds; it returns the 403 'Access Link Expired' page while the token is
\* still stored, used or not, and the 403 'Invalid or Expired Access Link'
\* page once an earlier expired lookup or a cleanup has deleted it.
C3_ExpiredOrGone ==
    \A i \in DoneLaunches :
        LET r == launch_reqs[i] IN
        r.at > Expiry(r.token) =>
            /\ r.status = 403
            /\ r.stored => r.body = "Access Link Expired"
            /\ ~r.stored => r.body = "Invalid or Expired Access Link"

\* C3 witness: a token that had been used was launched after its expiry and
\* reported as expired.
C3_Witness ==
    \E i \in DoneLaunches :
        LET r == launch_reqs[i] IN
        /\ r.at > Expiry(r.token) /\ r.prior /\ r.stored
        /\ r.body = "Access Link Expired"

IssuanceOps == {"request_tool_access", "start_gateway_session"}
ToolExists(tool_id) ==
    ObjectId(tool_id) # <<>> /\ find_tool(ObjectId(tool_id)) # {}

\* C4, the response: for an existing tool the issuance handlers answer 403
\* exactly when the subject is no Super Administrator and the tool id is not
\* in the subject's allowed_tools.
C4_Refusal ==
    (resp.op \in IssuanceOps /\ ToolExists(resp.tool_id)) =>
        (resp.status = 403 <=>
            (UsersDB[resp.user].role # "Super Administrator"
                /\ resp.tool_id \notin UsersDB[resp.user].allowed_tools))

\* C4, the effect: a request answered 403 stores no grant and no session.
C4_RefusedStoresNothing ==
    (resp'.op \in IssuanceOps /\ resp'.status = 403) =>
        (access_tokens' = access_tokens /\ gateway_sessions' = gateway_sessions)

\* C4: request_tool_access and start_gateway_session refuse an existing tool
\* with 403 exactly when the subject is not a Super Administrator and the
\* tool id is not in the subject's allowed_tools, and a refused request
\* stores nothing.
C4_AllowList == []C4_Refusal /\ [][C4_RefusedStoresNothing]_vars

\* C4 witness: a user was refused a gateway session for an existing tool that
\* is not in the user's allowed_tools.
C4_Witness ==
    /\ resp.op = "start_gateway_session" /\ resp.status = 403
    /\ ToolExists(resp.tool_id)
    /\ UsersDB[resp.user].role # "Super Administrator"

\* C5 (as claimed): no stored access token and no stored gateway session is
\* for a tool whose credential record has an empty username or password.
C5_NoGrantWithoutCredentials ==
    /\ \A h \in DOMAIN access_tokens :
          LET c == ToolsDB[ObjectId(access_tokens[h].tool_id)[1]].credentials
          IN  c.username # "" /\ c.password # ""
    /\ \A h \in DOMAIN gateway_sessions :
          LET c == SecretsDB[normalize_tool_name(gateway_sessions[h].tool_name)]
          IN  c.username # "" /\ c.password # ""

\* A launch_tool call found the token expired and deleted it.
FoundExpired(token) ==
    \E i \in DoneLaunches :
        /\ launch_reqs[i].token = token
        /\ launch_reqs[i].body = "Access Link Expired"

SessionOps == {"view_tool_gateway", "proxy_tool_request"}
SessionExpiredBody == {"Session Expired", "Session expired"}

\* C7: a view or proxy request that finds a session whose last access is more
\* than SESSION_TIMEOUT ago is answered 403 session-expired, and the session
\* is gone from gateway_sessions after it.
C7_IdleRejected ==
    (resp.op \in SessionOps) =>
        \A p \in resp.pre :
            p.at - p.last_access > SESSION_TIMEOUT =>
                /\ resp.status = 403
                /\ resp.body \in SessionExpiredBody
                /\ sha256(resp.token) \notin DOMAIN gateway_sessions

\* C7 witness: a proxy request found a session idle for 31 minutes.
C7_Witness ==
    /\ resp.op = "proxy_tool_request"
    /\ \E p \in resp.pre : p.at - p.last_access = SESSION_TIMEOUT + 1
    /\ resp.status = 403

\* C8 (as claimed): a view or proxy request that finds a session whose last
\* access is less than SESSION_TIMEOUT ago is served, and updates
\* last_access.
C8_IdleBased ==
    (resp.op \in SessionOps) =>
        \A p \in resp.pre :
            p.at - p.last_access < SESSION_TIMEOUT =>
                /\ resp.status # 403
                /\ sha256(resp.token) \in DOMAIN gateway_sessions
                /\ gateway_sessions[sha256(resp.token)].last_access = p.at

\* C9 (as claimed): stored grants and sessions expire after they were issued;
\* a launch is accepted iff it comes before expires_at and the token is
\* unused, a view or proxy request iff it comes before expires_at; at
\* now = expires_at neither is accepted.
C9_ValidIffBeforeExpiry ==
    /\ \A h \in DOMAIN gateway_sessions :
          gateway_sessions[h].expires_at > gateway_sessions[h].created_at
    /\ \A t \in DOMAIN handed :
          sha256(t) \in DOMAIN access_tokens =>
              access_tokens[sha256(t)].expires_at > handed[t].issued_at
    /\ \A i \in DoneLaunches :
          LET r == launch_reqs[i] IN
          r.stored => (LaunchSucceeded(r) <=> (r.at < Expiry(r.token) /\ ~r.prior))
    /\ (resp.op \in SessionOps) =>
          \A p \in resp.pre : (resp.status # 403 <=> p.at < p.expires_at)

\* C10, the response and what follows: end_gateway_session answers success
\* and leaves the token's session absent; a view or proxy request that comes
\* after it is answered 403, and none is let through to the upstream.
C10_EndedStaysEnded ==
    /\ resp.op = "end_gateway_session" =>
          (resp.status = 200 /\ sha256(resp.token) \notin DOMAIN gateway_sessions)
    /\ (resp.op \in SessionOps /\ resp.token \in ended) => resp.status = 403
    /\ \A i \in 1..Len(proxy_inflight) : ~proxy_inflight[i].after_end

\* C10, the effect: end_gateway_session removes the token's session when
\* there is one and changes no other session; where there is none it changes
\* nothing.
C10_EndEffect ==
    resp'.op = "end_gateway_session" =>
        /\ DOMAIN gateway_sessions' =
              (DOMAIN gateway_sessions) \ {sha256(resp'.token)}
        /\ \A h \in DOMAIN gateway_sessions' :
              gateway_sessions'[h] = gateway_sessions[h]

\* C10: end_gateway_session is idempotent: it always succeeds, leaves that
\* session absent and every other session unchanged whether it is the first
\* call or a repeated one, and afterwards view and proxy requests with the
\* token get 403.
C10_EndIdempotent == []C10_EndedStaysEnded /\ [][C10_EndEffect]_vars

\* C10 witness: end_gateway_session was called again for a session that an
\* earlier call had ended while it was still unexpired.
C10_Witness ==
    /\ resp.op = "end_gateway_session"
    /\ resp.pre = {}
    /\ resp.token \in DOMAIN handed
    /\ now < handed[resp.token].issued_at + SESSION_TIMEOUT

\* What the spec asks of a stored key: the digest of the token together with
\* a server-side salt.
Salts == {"salt"}
salted_sha256(salt, token) == <<"sha256", salt, token>>
\* The names of the fields of the stored grants.
StoredFields ==
    UNION ({DOMAIN access_tokens[h] : h \in DOMAIN access_tokens}
             \cup {DOMAIN gateway_sessions[h] : h \in DOMAIN gateway_sessions})
StoredKeys == (DOMAIN access_tokens) \cup (DOMAIN gateway_sessions)

\* C11: access_tokens and gateway_sessions are keyed only by a salted hash of
\* the token, no stored field holds the raw token, and the raw token of every
\* stored grant was handed to the caller by the issuance response.
C11_SaltedHashOnly ==
    /\ \A h \in StoredKeys :
          \E s \in Salts, t \in Tokens : h = salted_sha256(s, t)
    /\ StoredFields \cap {"token", "access_token", "session_token"} = {}
    /\ \A t \in Tokens : sha256(t) \in StoredKeys => t \in DOMAIN handed

\* The address as a 32-bit number, and membership of a CIDR range.
to_int(a) == ((a[1] * 256 + a[2]) * 256 + a[3]) * 256 + a[4]
in_network(a, net, prefix) ==
    to_int(a) \div 2 ^ (32 - prefix) = to_int(net) \div 2 ^ (32 - prefix)

\* C13: check_ip_allowed returns True exactly when the user is a Super
\* Administrator, or IP restriction is not enabled, or the client IP equals
\* an entry of whitelisted_ips, or it is in the global whitelist with status
\* Active, or it lies inside a CIDR range listed for the user.
C13_ExactlyWhenAllowed ==
    \A c \in ip_check :
        c.allowed <=>
            \/ c.user.role = SuperAdmin
            \/ ~c.user.ip_restriction_enabled
            \/ dotted(c.addr) \in c.user.whitelisted_ips
            \/ \E d \in c.whitelist : d.ip = dotted(c.addr) /\ d.status = "Active"
            \/ \E e \in WhitelistEntries :
                  /\ e.is_cidr
                  /\ entry_string(e) \in c.user.whitelisted_ips
                  /\ in_network(c.addr, e.net, e.prefix)

\* C12: request_tool_access and start_gateway_session issue a token only to
\* a subject whose source address passes check_ip_allowed: a subject with IP
\* restriction enabled whose address passes none of the checks gets no grant.
C12_IpDeniedNoGrant ==
    [][(resp'.op \in IssuanceOps /\ nextToken' # nextToken)
          => check_ip_allowed(UsersDB[resp'.user], dotted(client_host),
                              [ip_whitelist |-> IpWhitelistDB])]_vars

\* The credentials a second run stores in place of the first run's.
OtherCredentials ==
    {[username |-> "user", password |-> "pw2"],
     [username |-> "user2", password |-> "pw"]}
Viewer(token) == UsersDB[handed[token].user]

\* C14: the documents launch_tool and view_tool_gateway return to a viewer
\* who is not a Super Administrator are the same whatever username and
\* password are stored for the tool.
C14_ResponseIndependentOfCredential ==
    /\ \A i \in DoneLaunches :
          LET r == launch_reqs[i]
              tool == ToolsDB[handed[r.token].tool_id]
          IN  (r.status = 200 /\ Viewer(r.token).role # SuperAdmin) =>
                 \A c \in OtherCredentials :
                    r.page = {launch_page(tool.name, access_login_url(tool), c)}
    /\ (resp.op = "view_tool_gateway" /\ resp.status = 200
          /\ Viewer(resp.token).role # SuperAdmin) =>
          LET tool == ToolsDB[handed[resp.token].tool_id] IN
          \A c \in OtherCredentials :
             resp.page = gateway_page(tool.name, gateway_base_url(tool), c)

\* C15: a tool object returned by GET /api/tools or GET /api/tools/{tool_id}
\* contains a 'credentials' field if and only if the caller is a Super
\* Administrator and has_credentials is true, which it is when the stored
\* tool has credentials; Administrator and User callers never get one.
C15_CredentialsOnlyForSuperAdmin ==
    \A r \in tools_resp : \A t \in r.tools :
        /\ ("credentials" \in DOMAIN t) <=>
              (r.current_user.role = SuperAdmin /\ t.has_credentials)
        /\ r.current_user.role # SuperAdmin => "credentials" \notin DOMAIN t
        /\ t.has_credentials <=> truthy(r.db_tools[t.id].credentials)

\* C15 witness: the list returned to a Super Administrator holds a tool with
\* its credentials and a tool that has none.
C15_Witness ==
    \E r \in tools_resp :
        /\ r.op = "get_tools" /\ r.current_user.role = SuperAdmin
        /\ \E t \in r.tools : "credentials" \in DOMAIN t /\ t.has_credentials
        /\ \E t \in r.tools : "credentials" \notin DOMAIN t /\ ~t.has_credentials

\* C16: a decrypt-payload request whose Origin is not in the trusted
\* allow-list fails with an origin error and returns no decrypted username
\* or password, whatever the payload.
C16_UntrustedOriginRefused ==
    \A r \in decrypt_resp :
        r.origin \notin TrustedOrigins =>
            /\ ~r.success
            /\ r.error = "Invalid origin"
            /\ r.u = "" /\ r.p = ""

\* C16 witness: https://malicious-site.com sent a valid, unexpired payload.
C16_Witness ==
    \E r \in decrypt_resp :
        /\ r.origin = "https://malicious-site.com"
        /\ \E plain \in decrypt(PayloadKey, r.payload) : r.at <= plain.expires_at
        /\ ~r.success

\* A step that issues a grant, and a step that uses one: a launch that
\* succeeds, or a view or proxied request that is served.
IssueStep == nextToken' # nextToken /\ resp'.status = 200
UseStep ==
    \/ launched' # launched
    \/ /\ resp'.op \in {"view_tool_gateway", "proxy_tool_response"}
       /\ resp'.status = 200
       /\ (resp' # resp \/ gateway_sessions' # gateway_sessions)

\* C17: every issuance of a grant (request_tool_access,
\* start_gateway_session) and every use of one (launch_tool,
\* view_tool_gateway, proxy_tool_request) adds an activity-log record.
C17_AuditAtIssuanceAndUse ==
    [][(IssueStep \/ UseStep) => Len(activity_logs') = Len(activity_logs) + 1]_vars

\* C18: a failure of the activity-log insert does not fail
\* request_tool_access or start_gateway_session: no issuance request ends in
\* the server error of the failed insert, and no grant stays stored whose
\* raw token no response returned.
C18_AuditFailureHarmless ==
    /\ ~(resp.op \in IssuanceOps /\ resp.status = 500
           /\ resp.body = "Internal Server Error")
    /\ \A t \in Tokens :
          (sha256(t) \in DOMAIN access_tokens
              \/ sha256(t) \in DOMAIN gateway_sessions) => t \in DOMAIN handed

\* The cookie jar stored for a token (empty when the session is not stored).
Jar(sessions, token) ==
    IF sha256(token) \in DOMAIN sessions
    THEN sessions[sha256(token)].cookies ELSE EmptyDict
\* A proxied request of a stored session gets its upstream answer.
ProxyCompletes ==
    /\ Len(proxy_inflight') < Len(proxy_inflight)
    /\ resp'.status = 200
    /\ sha256(resp'.token) \in DOMAIN gateway_sessions

\* C19: whenever a proxy_tool_request call of a stored session completes,
\* in whatever order the concurrent calls of the session complete, the jar
\* afterwards holds every cookie the response set, with the response's
\* value, and every other cookie it held before, unchanged: the update
\* merges, and the latest value per name stays.
C19_CookiesMerge ==
    [][ProxyCompletes =>
          LET old == Jar(gateway_sessions, resp'.token)
              new == Jar(gateway_sessions', resp'.token)
              set == resp'.set_cookie
          IN  /\ DOMAIN new = (DOMAIN old) \cup (DOMAIN set)
              /\ \A k \in DOMAIN set : new[k] = set[k]
              /\ \A k \in (DOMAIN old) \ (DOMAIN set) : new[k] = old[k]]_vars

\* C19 witness: two requests of one session awaited the upstream together;
\* the first to complete set a cookie, the jar kept a cookie of another name
\* beside it, and the second request is still to complete.
C19_Witness ==
    /\ resp.op = "proxy_tool_response" /\ resp.status = 200
    /\ resp.set_cookie # EmptyDict
    /\ \E i \in 1..Len(proxy_inflight) : proxy_inflight[i].token = resp.token
    /\ LET jar == Jar(gateway_sessions, resp.token) IN
          /\ \A k \in DOMAIN resp.set_cookie :
                k \in DOMAIN jar /\ jar[k] = resp.set_cookie[k]
          /\ (DOMAIN jar) \ (DOMAIN resp.set_cookie) # {}

\* The words that mark the path of a login page.
LoginPageWords == {"login", "signin", "auth"}

\* C20: when the form was submitted, server_login_to_tool reports success
\* with the captured cookies whenever the final URL's host differs from the
\* login_url's host, and failure without cookies whenever the host is the
\* same and the final path contains 'login', 'signin' or 'auth'.
C20_LoginHeuristic ==
    \A r \in login_result :
        r.browser.outcome = "submitted" =>
            /\ r.browser.final_url.host # r.login_url.host =>
                  (r.result.success /\ r.result.cookies = {r.browser.cookies})
            /\ (r.browser.final_url.host = r.login_url.host
                  /\ lower_word(r.browser.final_url.word) \in LoginPageWords) =>
                  (~r.result.success /\ r.result.cookies = {})

\* The messages of the exceptions the broker's handlers catch, and the
\* prefixes of the bodies that could quote them.
ExceptionMessages ==
    {"500: Failed to retrieve credentials for tool",
     "400: Tool URL not configured", "upstream exception", "KeyError"}
ErrorPrefixes == {"Failed to retrieve credentials", "Error loading tool"}
FailureOps ==
    {"start_gateway_session", "view_tool_gateway", "proxy_tool_request",
     "proxy_tool_response"}

\* C21: every failure of a broker endpoint is answered with a fixed body
\* that quotes no exception message: the body of a failed
\* start_gateway_session, view or proxy request is the same whatever
\* exception caused it, and a failed launch gets one of the fixed pages.
C21_GenericErrorBodies ==
    /\ (resp.op \in FailureOps /\ resp.status >= 400) =>
          \A p \in ErrorPrefixes, e \in ExceptionMessages :
              resp.body # quote_exception(p, e)
    /\ \A i \in DoneLaunches :
          launch_reqs[i].status >= 400 =>
              launch_reqs[i].body \in
                  {"Invalid or Expired Access Link", "Access Link Expired",
                   "Access Link Already Used"}

\* The calls the issuance handlers have to refuse, from their inputs: the
\* tool id is malformed or names no tool, the subject is not allowed the
\* tool, or the tool has no URL at all.
MustRefuse(user, tool_id) ==
    \/ ~ToolExists(tool_id)
    \/ (UsersDB[user].role # SuperAdmin
          /\ tool_id \notin UsersDB[user].allowed_tools)
    \/ LET tool == ToolsDB[ObjectId(tool_id)[1]] IN
          tool.url = "" /\ tool.login_url = "" /\ tool.credentials.login_url = ""

\* C22: a request_tool_access or start_gateway_session call that is refused
\* (malformed tool id, tool not found, forbidden, tool URL not configured)
\* leaves access_tokens, gateway_sessions and the activity log as they were.
C22_RefusalHasNoEffect ==
    [][(resp'.op \in IssuanceOps
          /\ (MustRefuse(resp'.user, resp'.tool_id)
                \/ resp'.status \in {400, 403, 404}))
        => (/\ resp'.status >= 400
            /\ access_tokens' = access_tokens
            /\ gateway_sessions' = gateway_sessions
            /\ activity_logs' = activity_logs)]_vars

\* C22 witness: a call was refused as forbidden while a grant and its audit
\* record were stored.
C22_Witness ==
    /\ resp.op \in IssuanceOps /\ resp.status = 403
    /\ MustRefuse(resp.user, resp.tool_id)
    /\ DOMAIN access_tokens # {}
    /\ Len(activity_logs) > 0

TwoSv(u) == u \in DOMAIN AuthUsersDB /\ AuthUsersDB[u].two_sv_enabled
PassedVerify == {verify_reqs[i] : i \in 1..Len(verify_reqs)}

\* C23: on the password login path a user with two_sv_enabled gets a full
\* access token only from a verify-otp call that presented the code stored
\* for them, not past its expiry; login itself hands them a token of type
\* otp_pending, and get_current_user answers 401 to every such token.
C23_FullTokenOnlyAfterOtp ==
    /\ \A r \in auth_resp : (r.op = "login" /\ r.status = 200 /\ TwoSv(r.user)) =>
          \A t \in r.token : t.type = "otp_pending"
    /\ \A t \in jwts : (t.type = "" /\ TwoSv(t.sub)) =>
          \E r \in PassedVerify : r.access_token = {t}
    /\ \A r \in PassedVerify :
          /\ r.temp_token.type = "otp_pending"
          /\ r.read_at <= r.temp_token.exp
          /\ \E s \in r.stored : s.otp = r.otp /\ r.read_at <= s.otp_expires
    /\ \A r \in auth_resp : (r.op = "get_current_user" /\ \E t \in r.token : t.type = "otp_pending") =>
          r.status = 401

\* A two-step user holds a full token from verify-otp, after get_current_user
\* has refused a token of type otp_pending that had not expired.
C23_Witness ==
    /\ \E r \in PassedVerify : r.status = 200 /\ TwoSv(r.temp_token.sub)
    /\ \E r \in auth_resp : /\ r.op = "get_current_user" /\ r.status = 401
                            /\ \E t \in r.token : t.type = "otp_pending" /\ now <= t.exp

\* C29: a code stored by login or resend_otp lets at most one verify-otp
\* succeed: no two verify-otp calls, concurrent or not, succeed with the same
\* stored code.
C29_OneSuccessPerOtp ==
    \A i, j \in 1..Len(verify_reqs) :
        (/\ i # j
         /\ verify_reqs[i].status = 200 /\ verify_reqs[j].status = 200
         /\ verify_reqs[i].temp_token.sub = verify_reqs[j].temp_token.sub)
        => verify_reqs[i].otp # verify_reqs[j].otp

\* The websockets in the list active_connections holds for user u.
Connections(u) ==
    IF u \in DOMAIN manager.active_connections
    THEN LET l == manager.lists[manager.active_connections[u]]
         IN {l[i] : i \in 1..Len(l)}
    ELSE {}

\* C26: after any connect and disconnect calls on distinct websockets the two
\* maps agree: connection_users maps w to u exactly when w is in
\* active_connections[u], no websocket is listed under two users, and
\* active_connections holds no empty list.
C26_MapsAgree ==
    /\ \A w \in 1..MaxSockets, u \in WsKeys :
          (w \in DOMAIN manager.connection_users /\ manager.connection_users[w] = u)
              <=> w \in Connections(u)
    /\ \A u1 \in WsKeys, u2 \in WsKeys : u1 # u2 => Connections(u1) \cap Connections(u2) = {}
    /\ \A u \in DOMAIN manager.active_connections :
          manager.lists[manager.active_connections[u]] # <<>>
    /\ DOMAIN manager.active_connections \subseteq WsKeys

\* Two users are connected, after the only connection of a user was
\* disconnected (its list was dropped) and a connection was made again.
C26_Witness ==
    /\ \E u1 \in WsKeys, u2 \in WsKeys :
          u1 # u2 /\ Connections(u1) # {} /\ Connections(u2) # {}
    /\ nextSocket > MaxSockets
    /\ Len(manager.lists) > Cardinality(DOMAIN manager.active_connections)

\* C27: when send_to_user has returned, every connection that was listed for
\* the user when the call began and is still registered (websockets are not
\* registered twice, so it was registered for the whole call) had a send
\* attempted, whatever was disconnected meanwhile; and the call unregistered
\* exactly the connections whose send raised.
C27_SendReachesAllThatStay ==
    \A k \in 1..Len(sends) :
        LET r == sends[k]
            raised == {r.disconnected[i] : i \in 1..Len(r.disconnected)}
        IN r.st = "done" =>
              /\ \A w \in r.at_start :
                    w \in DOMAIN manager.connection_users => w \in r.attempted
              /\ r.unregistered \subseteq raised
              /\ raised \cap DOMAIN manager.connection_users = {}

\* What C24 lets an Administrator do: the user the path names is one of the
\* administrator's assigned_users and the new list holds only tools of the
\* administrator's own allowed_tools.
Permitted(admin, user_id, tool_ids) ==
    /\ ObjectId(user_id) # <<>>
    /\ ObjectId(user_id)[1] \in {ObjectId(x)[1] : x \in {y \in db_users[admin].assigned_users : ObjectId(y) # <<>>}}
    /\ tool_ids \subseteq db_users[admin].allowed_tools

\* C24: an update_tool_access call by an Administrator changes allowed_tools
\* only if the user is in the administrator's assigned_users and every tool
\* id of the new list is in the administrator's own allowed_tools; for an
\* existing user, any other call is answered 403 and changes nothing.
C24_AdminAssignsOwnToolsToOwnUsers ==
    [][\A r \in users_resp' :
          (r.op = "update_tool_access" /\ db_users[r.caller].role = "Administrator") =>
             /\ db_users' # db_users => Permitted(r.caller, r.id, r.ids)
             /\ (/\ ObjectId(r.id) # <<>>
                 /\ ObjectId(r.id)[1] \in DOMAIN db_users
                 /\ ~Permitted(r.caller, r.id, r.ids))
                => (r.status = 403 /\ db_users' = db_users)]_vars

\* An Administrator gave an assigned user a tool of their own, and was then
\* refused a tool they do not hold.
C24_Witness ==
    /\ db_users["u1"].allowed_tools = {"aa"}
    /\ \E i \in 1..Len(activity_logs) : activity_logs[i].user_email = db_users["a1"].email
    /\ \E r \in users_resp : /\ r.op = "update_tool_access" /\ r.caller = "a1"
                             /\ r.id = "u1" /\ r.ids = {"aa", "bb"} /\ r.status = 403

Administrators == {a \in DOMAIN db_users : db_users[a].role = "Administrator"}

\* C30: after any assign_users_to_admin calls, a user's managed_by is an
\* administrator's id exactly when the user's id is in that administrator's
\* assigned_users, and so no user is in the assigned_users of two
\* administrators.
C30_ManagedByMatchesAssignedUsers ==
    /\ \A u \in DOMAIN db_users, a \in Administrators :
          db_users[u].managed_by = {a} <=> u \in db_users[a].assigned_users
    /\ \A a1 \in Administrators, a2 \in Administrators :
          a1 # a2 => db_users[a1].assigned_users \cap db_users[a2].assigned_users = {}

\* C25: when update_tool_access adds or removes tools for a user who holds an
\* open websocket (registered by websocket_endpoint under the sub of the
\* user's own access token), the call starts a send of a tool_access_updated
\* message with the new tool ids to that connection.
C25_ToolChangeNotifiesOpenSocket ==
    [][\A r \in users_resp' :
          \A u \in DOMAIN db_users :
             (/\ r.op = "update_tool_access" /\ r.status = 200
              /\ db_users'[u].allowed_tools # db_users[u].allowed_tools)
             => \A w \in DOMAIN manager.connection_users :
                   manager.connection_users[w] = u =>
                      \E k \in 1..Len(sends') :
                         /\ k > Len(sends)
                         /\ sends'[k].message.type = "tool_access_updated"
                         /\ sends'[k].message.tool_ids = r.ids
                         /\ w \in sends'[k].at_start]_vars

\* The session of token t was ended, or was started and is stored no more.
Gone(t) ==
    \/ t \in ended
    \/ (t \in DOMAIN handed /\ handed[t].kind = "session"
        /\ sha256(t) \notin DOMAIN gateway_sessions)

\* C28: once a gateway session was ended by end_gateway_session or evicted as
\* expired, no later step puts it back into gateway_sessions, the completion
\* of a proxy_tool_request that was waiting for the upstream included, and
\* every later view or proxy request with its token is answered 403.
C28_EndedSessionStaysGone ==
    [][\A t \in Tokens :
          Gone(t) =>
             /\ sha256(t) \notin DOMAIN gateway_sessions'
             /\ (resp'.op \in {"view_tool_gateway", "proxy_tool_request"} /\ resp'.token = t)
                   => resp'.status = 403]_vars

\* A proxy request completed after its session was ended under it.
C28_Witness ==
    /\ resp.op = "proxy_tool_response" /\ resp.status = 200
    /\ resp.token \in ended /\ resp.pre = {}
    /\ "session" \in {handed[t].kind : t \in DOMAIN handed \cap {resp.token}}
====
